---- MODULE Spec2Model ----
(***************************************************************************)
(* Model of src/core_plugins/kibana/public/context/api/utils/sorting.js:   *)
(* getFirstSortableField, reverseSortDirective and reverseSortDirection.   *)
(*                                                                         *)
(* JavaScript values are tagged records; objects live in a heap (a         *)
(* sequence of objects, a reference being an index), so that object        *)
(* identity, allocation and mutation are visible.  A call either returns   *)
(* a value or throws.                                                      *)
(***************************************************************************)
EXTENDS Integers, Sequences, FiniteSets, TLC

VARIABLES
    heap,          \* the JavaScript heap: Seq of [plain, props]
    pc,            \* "build" | "called" | "twice" | "sortReady" | "sortDone"
    fn,            \* the function the last call was made to
    arg,           \* the argument of the last reversal call
    ret,           \* the outcome of the last call: [kind, val]
    pre,           \* the heap as it was when the last call was made
    orig,          \* the first reversal call: [heap, val], its heap and argument
    indexPattern,  \* argument of getFirstSortableField
    fieldNames     \* argument of getFirstSortableField

vars == <<heap, pc, fn, arg, ret, pre, orig, indexPattern, fieldNames>>

----------------------------------------------------------------------------
(* Bounds of the model *)

\* objects the caller builds before it calls a reversal function
MaxObjects == 2
\* longest candidate list handed to getFirstSortableField
MaxLen == 3

----------------------------------------------------------------------------
(* JavaScript values *)

Str(s) == [t |-> "string", s |-> s, r |-> 0]
Undefined == [t |-> "undefined", s |-> "", r |-> 0]
Null == [t |-> "null", s |-> "", r |-> 0]
Num42 == [t |-> "number", s |-> "42", r |-> 0]
Ref(r) == [t |-> "object", s |-> "", r |-> r]

Return(v) == [kind |-> "return", val |-> v]
Throw == [kind |-> "throw", val |-> Undefined]
NoCall == [kind |-> "none", val |-> Undefined]

\* an object literal with the given properties; arrays are objects that
\* are not plain
PlainObject(props) == [plain |-> TRUE, props |-> props]
EmptyProps == [k \in {} |-> Undefined]
ArrayObject == [plain |-> FALSE, props |-> EmptyProps]

Refs(h) == {Ref(r) : r \in 1..Len(h)}

\* the order own keys are visited in
KeyOrder == <<"a", "_score", "order", "mode">>

----------------------------------------------------------------------------
(* Heap primitives and the lodash helpers the module uses *)

\* evaluation of an object literal / `{}`
alloc(h, obj) == [heap |-> Append(h, obj), val |-> Ref(Len(h) + 1)]

\* property read o.k: undefined when the key is absent
Get(h, o, k) ==
    IF k \in DOMAIN h[o.r].props THEN h[o.r].props[k] ELSE Undefined

isString(v) == v.t = "string"

isPlainObject(h, v) == v.t = "object" /\ h[v.r].plain

OwnKeys(h, o) == SelectSeq(KeyOrder, LAMBDA k : k \in DOMAIN h[o.r].props)

\* target[k] = v
SetKey(h, target, k, v) ==
    [h EXCEPT ![target.r].props =
        [x \in (DOMAIN @) \cup {k} |-> IF x = k THEN v ELSE @[x]]]

\* copy the own properties of one source onto target
RECURSIVE assignFrom(_, _, _, _)
assignFrom(h, target, source, keys) ==
    IF keys = <<>> THEN h
    ELSE assignFrom(SetKey(h, target, Head(keys), Get(h, source, Head(keys))),
                    target, source, Tail(keys))

\* _.assign(target, s1, s2): mutates and returns target
assign(h, target, s1, s2) ==
    LET h1 == assignFrom(h, target, s1, OwnKeys(h, s1))
    IN  assignFrom(h1, target, s2, OwnKeys(h1, s2))

----------------------------------------------------------------------------
(* sorting.js *)

\* mutant: the list lacks its last name
META_FIELD_NAMES_short == <<"_seq_no", "_doc">>

META_FIELD_NAMES == <<"_seq_no", "_doc", "_uid">>

includes(array, x) == \E i \in 1..Len(array) : array[i] = x

\* mutant: a guarded lookup, a missing schema reads as "not sortable"
isSortableCandidate_guarded(ip, fieldName) ==
    IF includes(META_FIELD_NAMES, fieldName) THEN "true"
    ELSE IF ~ip.hasFields \/ ~ip.hasByName THEN "false"
    ELSE LET field == IF fieldName \in DOMAIN ip.byName
                      THEN ip.byName[fieldName]
                      ELSE [sortable |-> FALSE]
         IN  IF field.sortable THEN "true" ELSE "false"

\* the arrow function handed to filter: "true", "false" or "throw"
\* (reading a property of undefined is a TypeError)
isSortableCandidate(ip, fieldName) ==
    IF includes(META_FIELD_NAMES, fieldName) THEN "true"
    ELSE IF ~ip.hasFields \/ ~ip.hasByName THEN "throw"
    ELSE LET field == IF fieldName \in DOMAIN ip.byName
                      THEN ip.byName[fieldName]
                      ELSE [sortable |-> FALSE]
         IN  IF field.sortable THEN "true" ELSE "false"

\* Array.prototype.filter: the callback runs on every element, in order
RECURSIVE filter(_, _, _)
filter(ip, items, kept) ==
    IF items = <<>> THEN [kind |-> "return", items |-> kept]
    ELSE LET p == isSortableCandidate(ip, Head(items))
         IN  IF p = "throw" THEN [kind |-> "throw", items |-> <<>>]
             ELSE filter(ip, Tail(items),
                         IF p = "true" THEN Append(kept, Head(items)) ELSE kept)

\* mutant: the last sortable candidate instead of the first
getFirstSortableField_last(ip, names) ==
    IF ~names.isArray THEN Throw
    ELSE LET sortableFields == filter(ip, names.items, <<>>)
         IN  IF sortableFields.kind = "throw" THEN Throw
             ELSE IF Len(sortableFields.items) = 0 THEN Return(Undefined)
             ELSE Return(Str(sortableFields.items[Len(sortableFields.items)]))

getFirstSortableField(ip, names) ==
    IF ~names.isArray THEN Throw   \* fieldNames.filter is not a function
    ELSE LET sortableFields == filter(ip, names.items, <<>>)
         IN  IF sortableFields.kind = "throw" THEN Throw
             ELSE IF Len(sortableFields.items) = 0 THEN Return(Undefined)
             ELSE Return(Str(sortableFields.items[1]))

RECURSIVE reverseSortDirection(_, _)

\* mutant: the token is compared with 'ASC', so every token reverses to 'asc'
reverseSortDirection_typo(h, sortDirection) ==
    IF isPlainObject(h, sortDirection)
    THEN LET target == alloc(h, PlainObject(EmptyProps))
             order == reverseSortDirection(target.heap,
                                           Get(target.heap, sortDirection, "order"))
             source == alloc(order.heap,
                             PlainObject([k \in {"order"} |-> order.val]))
         IN  [heap |-> assign(source.heap, target.val, sortDirection, source.val),
              val |-> target.val]
    ELSE [heap |-> h,
          val |-> IF sortDirection = Str("ASC") THEN Str("desc") ELSE Str("asc")]

\* mutant: _.assign({}, {order: ...}), the options are not copied
reverseSortDirection_noCopy(h, sortDirection) ==
    IF isPlainObject(h, sortDirection)
    THEN LET target == alloc(h, PlainObject(EmptyProps))
             order == reverseSortDirection(target.heap,
                                           Get(target.heap, sortDirection, "order"))
             source == alloc(order.heap,
                             PlainObject([k \in {"order"} |-> order.val]))
         IN  [heap |-> assign(source.heap, target.val, source.val, source.val),
              val |-> target.val]
    ELSE [heap |-> h,
          val |-> IF sortDirection = Str("asc") THEN Str("desc") ELSE Str("asc")]

\* mutant: _.assign(sortDirection, {order: ...}), the input is the target
reverseSortDirection_inPlace(h, sortDirection) ==
    IF isPlainObject(h, sortDirection)
    THEN LET order == reverseSortDirection(h, Get(h, sortDirection, "order"))
             source == alloc(order.heap,
                             PlainObject([k \in {"order"} |-> order.val]))
         IN  [heap |-> assign(source.heap, sortDirection, sortDirection, source.val),
              val |-> sortDirection]
    ELSE [heap |-> h,
          val |-> IF sortDirection = Str("asc") THEN Str("desc") ELSE Str("asc")]

\* mutant: only the two tokens are swapped, any other value is kept
reverseSortDirection_strict(h, sortDirection) ==
    IF isPlainObject(h, sortDirection)
    THEN LET target == alloc(h, PlainObject(EmptyProps))
             order == reverseSortDirection(target.heap,
                                           Get(target.heap, sortDirection, "order"))
             source == alloc(order.heap,
                             PlainObject([k \in {"order"} |-> order.val]))
         IN  [heap |-> assign(source.heap, target.val, sortDirection, source.val),
              val |-> target.val]
    ELSE [heap |-> h,
          val |-> IF sortDirection = Str("asc") THEN Str("desc")
                  ELSE IF sortDirection = Str("desc") THEN Str("asc")
                  ELSE sortDirection]

reverseSortDirection(h, sortDirection) ==
    IF isPlainObject(h, sortDirection)
    THEN LET target == alloc(h, PlainObject(EmptyProps))
             order == reverseSortDirection(target.heap,
                                           Get(target.heap, sortDirection, "order"))
             source == alloc(order.heap,
                             PlainObject([k \in {"order"} |-> order.val]))
         IN  [heap |-> assign(source.heap, target.val, sortDirection, source.val),
              val |-> target.val]
    ELSE [heap |-> h,
          val |-> IF sortDirection = Str("asc") THEN Str("desc") ELSE Str("asc")]

\* _.mapValues(object, reverseSortDirection): a new object with the same
\* keys, filled key by key
RECURSIVE mapValuesFrom(_, _, _, _)
mapValuesFrom(h, result, object, keys) ==
    IF keys = <<>> THEN [heap |-> h, val |-> result]
    ELSE LET v == reverseSortDirection(h, Get(h, object, Head(keys)))
         IN  mapValuesFrom(SetKey(v.heap, result, Head(keys), v.val),
                           result, object, Tail(keys))

\* mutant: the iteration starts one key too late
mapValues_skipFirst(h, object) ==
    LET result == alloc(h, PlainObject(EmptyProps))
    IN  IF OwnKeys(h, object) = <<>> THEN result
        ELSE mapValuesFrom(result.heap, result.val, object, Tail(OwnKeys(h, object)))

mapValues(h, object) ==
    LET result == alloc(h, PlainObject(EmptyProps))
    IN  mapValuesFrom(result.heap, result.val, object, OwnKeys(h, object))

\* mutant: '_score' is reversed like any other field name
reverseSortDirective_noScore(h, sortDirective) ==
    IF isString(sortDirective)
    THEN alloc(h, PlainObject([k \in {sortDirective.s} |-> Str("desc")]))
    ELSE IF isPlainObject(h, sortDirective)
    THEN mapValues(h, sortDirective)
    ELSE [heap |-> h, val |-> sortDirective]

\* mutant: _.isObject in place of _.isPlainObject, arrays are mapped too
reverseSortDirective_isObject(h, sortDirective) ==
    IF isString(sortDirective)
    THEN alloc(h, PlainObject(
             [k \in {sortDirective.s} |->
                 IF sortDirective = Str("_score") THEN Str("asc") ELSE Str("desc")]))
    ELSE IF sortDirective.t = "object"
    THEN mapValues(h, sortDirective)
    ELSE [heap |-> h, val |-> sortDirective]

reverseSortDirective(h, sortDirective) ==
    IF isString(sortDirective)
    THEN alloc(h, PlainObject(
             [k \in {sortDirective.s} |->
                 IF sortDirective = Str("_score") THEN Str("asc") ELSE Str("desc")]))
    ELSE IF isPlainObject(h, sortDirective)
    THEN mapValues(h, sortDirective)
    ELSE [heap |-> h, val |-> sortDirective]

----------------------------------------------------------------------------
(* The callers: inputs the functions are applied to *)

FieldNames == {"a", "b", "_seq_no", "_doc", "_uid"}

RECURSIVE SeqsUpTo(_, _)
SeqsUpTo(S, n) ==
    IF n = 0 THEN {<<>>}
    ELSE LET shorter == SeqsUpTo(S, n - 1)
         IN  shorter \cup {Append(s, x) : s \in shorter, x \in S}

Schemas ==
    UNION {[D -> {[sortable |-> TRUE], [sortable |-> FALSE]}] :
              D \in SUBSET FieldNames}

IndexPatterns ==
    {[hasFields |-> TRUE, hasByName |-> TRUE, byName |-> b] : b \in Schemas}
    \cup {[hasFields |-> TRUE, hasByName |-> FALSE, byName |-> EmptyProps],
          [hasFields |-> FALSE, hasByName |-> FALSE, byName |-> EmptyProps]}

CandidateLists ==
    {[isArray |-> TRUE, items |-> s] : s \in SeqsUpTo(FieldNames, MaxLen)}
    \cup {[isArray |-> FALSE, items |-> <<>>]}

NoIndexPattern == [hasFields |-> FALSE, hasByName |-> FALSE, byName |-> EmptyProps]
NoFieldNames == [isArray |-> FALSE, items |-> <<>>]

NoOrig == [heap |-> <<>>, val |-> Undefined]

Tokens == {Str("asc"), Str("desc"), Str("up")}
Primitives == {Undefined, Null, Num42}

InitSort ==
    /\ pc = "sortReady"
    /\ indexPattern \in IndexPatterns
    /\ fieldNames \in CandidateLists
    /\ heap = <<>> /\ pre = <<>>
    /\ fn = "none" /\ arg = Undefined /\ orig = NoOrig /\ ret = NoCall

InitReverse ==
    /\ pc = "build"
    /\ indexPattern = NoIndexPattern
    /\ fieldNames = NoFieldNames
    /\ heap = <<>> /\ pre = <<>>
    /\ fn = "none" /\ arg = Undefined /\ orig = NoOrig /\ ret = NoCall

Init == InitSort \/ InitReverse

CallGetFirstSortableField ==
    /\ pc = "sortReady"
    /\ pc' = "sortDone"
    /\ fn' = "getFirstSortableField"
    /\ ret' = getFirstSortableField(indexPattern, fieldNames)
    /\ UNCHANGED <<heap, arg, pre, orig, indexPattern, fieldNames>>

\* the caller writes an options literal: {order: ..., mode: 'min'}
NewSortOptions ==
    /\ pc = "build" /\ Len(heap) < MaxObjects
    /\ \E keys \in SUBSET {"order", "mode"}, o \in Tokens \cup Refs(heap) :
          heap' = Append(heap, PlainObject(
                      [k \in keys |-> IF k = "order" THEN o ELSE Str("min")]))
    /\ UNCHANGED <<pc, fn, arg, ret, pre, orig, indexPattern, fieldNames>>

\* the caller writes an object-form directive: {a: ..., _score: ...}
NewSortDirectiveObject ==
    /\ pc = "build" /\ Len(heap) < MaxObjects
    /\ \E keys \in SUBSET {"a", "_score"},
          f \in [{"a", "_score"} -> Tokens \cup Refs(heap)] :
          heap' = Append(heap, PlainObject([k \in keys |-> f[k]]))
    /\ UNCHANGED <<pc, fn, arg, ret, pre, orig, indexPattern, fieldNames>>

\* the caller writes an array literal
NewArray ==
    /\ pc = "build" /\ Len(heap) < MaxObjects
    /\ heap' = Append(heap, ArrayObject)
    /\ UNCHANGED <<pc, fn, arg, ret, pre, orig, indexPattern, fieldNames>>

CallReverseSortDirective ==
    /\ pc = "build"
    /\ \E v \in {Str("a"), Str("_score")} \cup Primitives \cup Refs(heap) :
          LET out == reverseSortDirective(heap, v)
          IN  /\ heap' = out.heap
              /\ ret' = Return(out.val)
              /\ arg' = v
              /\ orig' = [heap |-> heap, val |-> v]
    /\ pre' = heap
    /\ fn' = "reverseSortDirective"
    /\ pc' = "called"
    /\ UNCHANGED <<indexPattern, fieldNames>>

\* the caller reverses the directive it got back
CallReverseSortDirectiveAgain ==
    /\ pc = "called" /\ fn = "reverseSortDirective"
    /\ LET out == reverseSortDirective(heap, ret.val)
       IN  /\ heap' = out.heap
           /\ ret' = Return(out.val)
    /\ arg' = ret.val
    /\ pre' = heap
    /\ pc' = "twice"
    /\ UNCHANGED <<fn, orig, indexPattern, fieldNames>>

CallReverseSortDirection ==
    /\ pc = "build"
    /\ \E v \in Tokens \cup Primitives \cup Refs(heap) :
          LET out == reverseSortDirection(heap, v)
          IN  /\ heap' = out.heap
              /\ ret' = Return(out.val)
              /\ arg' = v
              /\ orig' = [heap |-> heap, val |-> v]
    /\ pre' = heap
    /\ fn' = "reverseSortDirection"
    /\ pc' = "called"
    /\ UNCHANGED <<indexPattern, fieldNames>>

Next ==
    \/ CallGetFirstSortableField
    \/ NewSortOptions
    \/ NewSortDirectiveObject
    \/ NewArray
    \/ CallReverseSortDirective
    \/ CallReverseSortDirectiveAgain
    \/ CallReverseSortDirection

Spec == Init /\ [][Next]_vars

----------------------------------------------------------------------------
(* Properties *)

Called == pc \in {"called", "twice"}

Asc == Str("asc")
Desc == Str("desc")

\* the three meta field names, as the specification lists them
SpecMetaNames == {"_seq_no", "_doc", "_uid"}

Qualifies(name) ==
    \/ name \in SpecMetaNames
    \/ name \in DOMAIN indexPattern.byName /\ indexPattern.byName[name].sortable

QualifyingPositions ==
    {i \in 1..Len(fieldNames.items) : Qualifies(fieldNames.items[i])}

WellFormedSelection ==
    /\ pc = "sortDone"
    /\ fieldNames.isArray
    /\ indexPattern.hasFields /\ indexPattern.hasByName

\* w in heap h1 is the reversal of direction value v in heap h0: a token
\* (or any value that is no options structure) gives 'desc' for 'asc' and
\* 'asc' otherwise; an options structure gives an options structure with
\* the other keys' values kept and "order" reversed
RECURSIVE IsReversal(_, _, _, _)
IsReversal(h0, v, h1, w) ==
    IF isPlainObject(h0, v)
    THEN /\ w.t = "object" /\ w.r \in 1..Len(h1) /\ h1[w.r].plain
         /\ DOMAIN h1[w.r].props = DOMAIN h0[v.r].props \cup {"order"}
         /\ \A k \in DOMAIN h0[v.r].props \ {"order"} :
               h1[w.r].props[k] = h0[v.r].props[k]
         /\ IsReversal(h0, Get(h0, v, "order"), h1, h1[w.r].props["order"])
    ELSE w = IF v = Asc THEN Desc ELSE Asc

\* structural equality of value v in heap h0 and value w in heap h1
RECURSIVE DeepEq(_, _, _, _)
DeepEq(h0, v, h1, w) ==
    IF v.t = "object" /\ w.t = "object"
    THEN /\ h0[v.r].plain = h1[w.r].plain
         /\ DOMAIN h0[v.r].props = DOMAIN h1[w.r].props
         /\ \A k \in DOMAIN h0[v.r].props :
               DeepEq(h0, h0[v.r].props[k], h1, h1[w.r].props[k])
    ELSE v = w

\* an object-form directive all of whose values are 'asc' or 'desc'
TokenDirective(h, v) ==
    /\ isPlainObject(h, v)
    /\ \A k \in DOMAIN h[v.r].props : h[v.r].props[k] \in {Asc, Desc}

\* w, the reversal of options structure v, and every options structure
\* under its "order", is an object allocated by the call
RECURSIVE FreshOptions(_, _)
FreshOptions(v, w) ==
    /\ w.t = "object" /\ w.r \in (Len(pre) + 1)..Len(heap)
    /\ w # v
    /\ isPlainObject(pre, Get(pre, v, "order")) =>
          FreshOptions(Get(pre, v, "order"), Get(heap, w, "order"))

\* C1: on a schema with the field lookup and a candidate sequence,
\* getFirstSortableField returns the candidate at the lowest position that
\* is a meta field or has a schema entry with sortable true, and undefined
\* when no candidate qualifies; a non-meta name with no entry does not
\* qualify.
C1_FirstSortable ==
    WellFormedSelection =>
        ret = IF QualifyingPositions = {} THEN Return(Undefined)
              ELSE Return(Str(fieldNames.items[
                       CHOOSE i \in QualifyingPositions :
                           \A j \in QualifyingPositions : i <= j]))

\* the example of the specification: a (not sortable), b (sortable),
\* candidates a, _doc, b give _doc
C1_Witness ==
    /\ WellFormedSelection
    /\ fieldNames.items = <<"a", "_doc", "b">>
    /\ DOMAIN indexPattern.byName = {"a", "b"}
    /\ ~indexPattern.byName["a"].sortable
    /\ indexPattern.byName["b"].sortable
    /\ ret = Return(Str("_doc"))

\* C2: a meta field name that is the first candidate is returned, whether
\* the schema has no entry for it, an entry with sortable true or an entry
\* with sortable false.
C2_MetaAlwaysSortable ==
    (WellFormedSelection
        /\ Len(fieldNames.items) >= 1
        /\ fieldNames.items[1] \in SpecMetaNames)
    => ret = Return(Str(fieldNames.items[1]))

C2_Witness ==
    /\ WellFormedSelection
    /\ Len(fieldNames.items) >= 1
    /\ fieldNames.items[1] = "_uid"
    /\ "_uid" \in DOMAIN indexPattern.byName
    /\ ~indexPattern.byName["_uid"].sortable
    /\ ret = Return(Str("_uid"))

\* C3: reversing twice returns a directive equal to the original for every
\* object-form directive whose values are 'asc' or 'desc'.  The string
\* form is the exception: the first reversal promotes the string s to
\* object form, so the second returns the object {s: 'asc'}
\* ({'_score': 'desc'} for the score field) and never the string.
C3_RoundTrip ==
    pc = "twice" =>
        /\ TokenDirective(orig.heap, orig.val) =>
              DeepEq(orig.heap, orig.val, heap, ret.val)
        /\ isString(orig.val) =>
              /\ ~DeepEq(orig.heap, orig.val, heap, ret.val)
              /\ isPlainObject(heap, ret.val)
              /\ DOMAIN heap[ret.val.r].props = {orig.val.s}
              /\ heap[ret.val.r].props[orig.val.s] =
                    IF orig.val.s = "_score" THEN Desc ELSE Asc

C3_Witness ==
    /\ pc = "twice"
    /\ isPlainObject(orig.heap, orig.val)
    /\ DOMAIN orig.heap[orig.val.r].props = {"a", "_score"}
    /\ Get(orig.heap, orig.val, "a") = Asc
    /\ Get(orig.heap, orig.val, "_score") = Desc
    /\ Get(pre, arg, "a") = Desc
    /\ Get(pre, arg, "_score") = Asc
    /\ Get(heap, ret.val, "a") = Asc
    /\ Get(heap, ret.val, "_score") = Desc

\* C4: reversing a string-form directive s returns an object with exactly
\* one key, s, whose value is 'asc' when s is '_score' and 'desc' for any
\* other field name.
C4_StringForm ==
    (Called /\ fn = "reverseSortDirective" /\ isString(arg)) =>
        /\ ret.kind = "return"
        /\ isPlainObject(heap, ret.val)
        /\ DOMAIN heap[ret.val.r].props = {arg.s}
        /\ heap[ret.val.r].props[arg.s] = IF arg.s = "_score" THEN Asc ELSE Desc

C4_Witness ==
    /\ pc = "called" /\ fn = "reverseSortDirective"
    /\ arg = Str("_score")
    /\ isPlainObject(heap, ret.val)
    /\ heap[ret.val.r].props = [k \in {"_score"} |-> Asc]

\* C5: reversing an object-form directive returns a mapping with exactly
\* the same keys, each value the reversal of the input's value for that
\* key; '_score' as a key is treated like any other key.
C5_ObjectForm ==
    (Called /\ fn = "reverseSortDirective" /\ isPlainObject(pre, arg)) =>
        /\ ret.kind = "return"
        /\ isPlainObject(heap, ret.val)
        /\ DOMAIN heap[ret.val.r].props = DOMAIN pre[arg.r].props
        /\ \A k \in DOMAIN pre[arg.r].props :
              IsReversal(pre, pre[arg.r].props[k], heap, heap[ret.val.r].props[k])

C5_Witness ==
    /\ pc = "called" /\ fn = "reverseSortDirective"
    /\ isPlainObject(pre, arg)
    /\ pre[arg.r].props = [k \in {"a", "_score"} |-> IF k = "a" THEN Asc ELSE Desc]
    /\ heap[ret.val.r].props = [k \in {"a", "_score"} |-> IF k = "a" THEN Desc ELSE Asc]

\* the result w of reversing options structure v: the keys of v and
\* "order", every key but "order" with the very value it has in v, and
\* "order" the reversal of v's "order"
OptionsReversed(v, w) ==
    /\ isPlainObject(heap, w)
    /\ DOMAIN heap[w.r].props = DOMAIN pre[v.r].props \cup {"order"}
    /\ \A k \in DOMAIN pre[v.r].props \ {"order"} :
          heap[w.r].props[k] = pre[v.r].props[k]
    /\ IsReversal(pre, Get(pre, v, "order"), heap, Get(heap, w, "order"))

\* C6: reversing an options structure, handed to reverseSortDirection or
\* found as a value of an object-form directive, gives a shallow copy:
\* every key but "order" keeps its value, "order" holds the reversal of the
\* input's "order".
C6_OptionsShallowCopy ==
    /\ (Called /\ fn = "reverseSortDirection" /\ isPlainObject(pre, arg)) =>
          OptionsReversed(arg, ret.val)
    /\ (Called /\ fn = "reverseSortDirective" /\ isPlainObject(pre, arg)) =>
          \A k \in DOMAIN pre[arg.r].props :
              isPlainObject(pre, pre[arg.r].props[k]) =>
                  /\ k \in DOMAIN heap[ret.val.r].props
                  /\ OptionsReversed(pre[arg.r].props[k], heap[ret.val.r].props[k])

C6_Witness ==
    /\ pc = "called" /\ fn = "reverseSortDirective"
    /\ isPlainObject(pre, arg)
    /\ "a" \in DOMAIN pre[arg.r].props
    /\ isPlainObject(pre, pre[arg.r].props["a"])
    /\ pre[pre[arg.r].props["a"].r].props =
          [k \in {"order", "mode"} |-> IF k = "order" THEN Asc ELSE Str("min")]
    /\ heap[heap[ret.val.r].props["a"].r].props =
          [k \in {"order", "mode"} |-> IF k = "order" THEN Desc ELSE Str("min")]

\* C7: a directive that is neither a string nor a plain object (null,
\* undefined, a number, an array) is returned as it is, nothing is thrown
\* and nothing is allocated or changed.
C7_PassThrough ==
    (Called /\ fn = "reverseSortDirective"
        /\ ~isString(arg) /\ ~isPlainObject(pre, arg))
    => (ret = Return(arg) /\ heap = pre)

C7_Witness ==
    /\ pc = "called" /\ fn = "reverseSortDirective"
    /\ arg.t = "object" /\ ~pre[arg.r].plain
    /\ ret = Return(arg)

\* C8: a reversal call changes no object that existed before it; on an
\* object-form directive the returned mapping, and the reversal of every
\* options structure in it, is an object the call allocated, and so is
\* the reversal of an options structure handed to reverseSortDirection.
C8_NoMutation ==
    Called =>
        /\ Len(heap) >= Len(pre)
        /\ \A r \in 1..Len(pre) : heap[r] = pre[r]
        /\ (fn = "reverseSortDirection" /\ isPlainObject(pre, arg)) =>
              FreshOptions(arg, ret.val)
        /\ (fn = "reverseSortDirective" /\ isPlainObject(pre, arg)) =>
              /\ ret.val.t = "object"
              /\ ret.val.r \in (Len(pre) + 1)..Len(heap)
              /\ \A k \in DOMAIN pre[arg.r].props :
                    isPlainObject(pre, pre[arg.r].props[k]) =>
                        FreshOptions(pre[arg.r].props[k], Get(heap, ret.val, k))

C8_Witness ==
    /\ pc = "called" /\ fn = "reverseSortDirective"
    /\ isPlainObject(pre, arg)
    /\ isPlainObject(pre, Get(pre, arg, "a"))
    /\ Get(pre, Get(pre, arg, "a"), "order") = Asc
    /\ Get(heap, Get(heap, arg, "a"), "order") = Asc
    /\ Get(heap, Get(heap, ret.val, "a"), "order") = Desc
    /\ ret.val # arg
    /\ Get(heap, ret.val, "a") # Get(heap, arg, "a")

\* C9 as stated: no call throws, whatever the shape of its input.
C9_NeverThrows == ret.kind # "throw"

\* C9 amended: reverseSortDirective and reverseSortDirection return a
\* value on every input; getFirstSortableField returns on a candidate
\* with no schema entry, and throws exactly when the candidate list is no
\* sequence, or the schema lacks the field lookup and some candidate is
\* not a meta field.
C9_ThrowsOnlyOnMalformedSelection ==
    /\ Called =>
          /\ ret.kind = "return"
          /\ ret.val.t = "object" => ret.val.r \in 1..Len(heap)
    /\ pc = "sortDone" =>
          /\ ret.kind \in {"return", "throw"}
          /\ ret.kind = "throw" <=>
                \/ ~fieldNames.isArray
                \/ /\ ~indexPattern.hasFields \/ ~indexPattern.hasByName
                   /\ \E i \in 1..Len(fieldNames.items) :
                         fieldNames.items[i] \notin SpecMetaNames

C9_Witness ==
    /\ pc = "sortDone"
    /\ fieldNames.isArray
    /\ fieldNames.items = <<"_doc", "a">>
    /\ ~indexPattern.hasByName
    /\ ret = Throw

\* C10: for a direction value that is no options structure,
\* reverseSortDirection returns 'desc' exactly when the value is 'asc'
\* and 'asc' for every other value; so an options structure with no
\* "order" key comes back with "order" 'asc'.
C10_TokenReversal ==
    /\ (Called /\ fn = "reverseSortDirection" /\ ~isPlainObject(pre, arg)) =>
          /\ ret = Return(IF arg = Asc THEN Desc ELSE Asc)
          /\ ret.val \in {Asc, Desc}
          /\ ret.val = Desc <=> arg = Asc
    /\ (Called /\ fn = "reverseSortDirection" /\ isPlainObject(pre, arg)
           /\ "order" \notin DOMAIN pre[arg.r].props) =>
          Get(heap, ret.val, "order") = Asc
    /\ (Called /\ fn = "reverseSortDirective" /\ isPlainObject(pre, arg)) =>
          \A k \in DOMAIN pre[arg.r].props :
              ~isPlainObject(pre, pre[arg.r].props[k]) =>
                  Get(heap, ret.val, k) =
                      IF pre[arg.r].props[k] = Asc THEN Desc ELSE Asc

C10_Witness ==
    /\ pc = "called" /\ fn = "reverseSortDirection"
    /\ isPlainObject(pre, arg)
    /\ DOMAIN pre[arg.r].props = {"mode"}
    /\ heap[ret.val.r].props =
          [k \in {"order", "mode"} |-> IF k = "order" THEN Asc ELSE Str("min")]

====
